---- MODULE Spec2Model ----
(***************************************************************************)
(* A model of the RouterOS API client of src/protocol.go: the sentence     *)
(* parsers receive and asyncReceive, the request builders Call, Query and  *)
(* KeepAliveCall, the login handshake Connect, and Close.                  *)
(*                                                                         *)
(* A Go string is a sequence of one-character strings, so that the string  *)
(* operations of the code (strings.Contains, strings.SplitN, strings.Join, *)
(* fmt.Sprintf, hex.DecodeString, "%x") are computed, not assumed.         *)
(* A Go map[string]string is a function whose domain is its key set.       *)
(* An error value is a string; "nil" is the nil error.                     *)
(*                                                                         *)
(* The client is single threaded (spec section 5): one API call runs at a  *)
(* time.  A blocking call is cut into steps at its reads and writes of the *)
(* connection: one step per c.send and one per iteration of a receive loop.*)
(* The one step of another goroutine is CloseAsync, the Close that ends a  *)
(* KeepAliveCall.  The framing of a single word, prefixlen and getlen, is   *)
(* a specification of its own, SpecCodec.                                  *)
(***************************************************************************)
EXTENDS Integers, Sequences, FiniteSets, TLC

VARIABLES
    conn,      \* Client.conn: 0 is nil, otherwise the id of the dialed connection
    ready,     \* Client.ready
    open,      \* the set of connection ids that were dialed and not yet closed
    dials,     \* how many connections net.Dial has handed out
    pc,        \* where the running API call stands ("idle" when none runs)
    api,       \* the method the user called: "Connect", "Call", "Query", "KeepAliveCall"
    round,     \* in Connect: 1 or 2, the login round that runs; 0 otherwise
    fn,        \* the request builder that runs: "Call", "Query", "KeepAliveCall"
    args,      \* command and parameters of the running request builder
    i,         \* index of the next pair in the builder's range loop
    cred,      \* Connect's parameters user and password
    res,       \* Connect's local res: the reply of the first login round
    sendlog,   \* the c.send calls of the running request: word, and whether it was written
    rcvd,      \* the words the running parser has read so far
    reply,     \* local reply of receive / asyncReceive
    re,        \* local re
    done,      \* local done
    subReply,  \* local subReply
    rerr,      \* the error the parser returned; "none" while it has not returned
    iter,      \* the invocations of KeepAliveCall's iterator: its records argument
    result,    \* what the API call returned to its caller: reply and error
    cpc,       \* where the framing of one word stands ("off" while a client runs)
    wlen,      \* send: len(bword), the length of the word that is sent
    wire,      \* the bytes of the length prefix written and not yet read
    wbody,     \* how many bytes of the word are written and not yet read
    glen,      \* getlen: the length decoded so far
    gneed,     \* getlen: how many bytes of the prefix are still to be read
    nread      \* receive: n, how many bytes of the word io.ReadAtLeast has read

clientVars == << conn, ready, open, dials, pc, api, round, fn, args, i, cred, res, sendlog,
                 rcvd, reply, re, done, subReply, rerr, iter, result >>

codecVars == << cpc, wlen, wire, wbody, glen, gneed, nread >>

vars == << clientVars, codecVars >>

-----------------------------------------------------------------------------
(* Bounds of the model. *)

\* net.Dial succeeds at most this many times
MaxDials == 2

\* a parser reads at most this many words of one reply stream before the
\* read that ends it
MaxWords == 5

\* ... and at most this many while Connect's login rounds run
MaxLoginWords == 2

-----------------------------------------------------------------------------
(* Strings. *)

sDone == << "!", "d", "o", "n", "e" >>
sRe == << "!", "r", "e" >>
sTrap == << "!", "t", "r", "a", "p" >>
sLogin == << "/", "l", "o", "g", "i", "n" >>
sRet == << "r", "e", "t" >>
sName == << "n", "a", "m", "e" >>
sResponse == << "r", "e", "s", "p", "o", "n", "s", "e" >>
sProplistEq == << "=", ".", "p", "r", "o", "p", "l", "i", "s", "t", "=" >>

\* printable ASCII, in code order from 32 (space) to 126 (~); the double quote,
\* the backslash and the back quote are spelled out, no string of the model
\* holds them
Ascii ==
    << " ", "!", "dquote", "#", "$", "%", "&", "'", "(", ")", "*", "+", ",", "-", ".", "/",
       "0", "1", "2", "3", "4", "5", "6", "7", "8", "9", ":", ";", "<", "=", ">", "?",
       "@", "A", "B", "C", "D", "E", "F", "G", "H", "I", "J", "K", "L", "M", "N", "O",
       "P", "Q", "R", "S", "T", "U", "V", "W", "X", "Y", "Z", "[", "bslash", "]", "^", "_",
       "bquote", "a", "b", "c", "d", "e", "f", "g", "h", "i", "j", "k", "l", "m", "n", "o",
       "p", "q", "r", "s", "t", "u", "v", "w", "x", "y", "z", "{", "|", "}", "~" >>

\* the byte of a character: []byte(s)[k] for an ASCII string
Ord(c) == 31 + (CHOOSE k \in DOMAIN Ascii : Ascii[k] = c)

RECURSIVE Bytes(_)
Bytes(s) == IF s = << >> THEN << >> ELSE << Ord(Head(s)) >> \o Bytes(Tail(s))

\* strings.Contains(s, c) for a one-character c
Contains(s, c) == \E k \in DOMAIN s : s[k] = c

\* strings.Index(s, c) for a one-character c, counted from 1; 0 when absent
Index(s, c) ==
    IF Contains(s, c) THEN CHOOSE k \in DOMAIN s : s[k] = c /\ \A j \in 1..(k - 1) : s[j] # c
    ELSE 0

\* strings.SplitN(s, "=", n) for n > 0: at most n substrings, the last one
\* the unsplit remainder
RECURSIVE SplitN(_, _)
SplitN(s, n) ==
    IF n = 1 \/ ~Contains(s, "=") THEN << s >>
    ELSE << SubSeq(s, 1, Index(s, "=") - 1) >>
             \o SplitN(SubSeq(s, Index(s, "=") + 1, Len(s)), n - 1)

\* strings.Join(a, ",")
RECURSIVE Join(_)
Join(a) ==
    IF a = << >> THEN << >>
    ELSE IF Len(a) = 1 THEN a[1]
    ELSE a[1] \o << "," >> \o Join(Tail(a))

\* the digits of encoding/hex
HexDigits == << "0", "1", "2", "3", "4", "5", "6", "7", "8", "9", "a", "b", "c", "d", "e", "f" >>
HexUpper == << "0", "1", "2", "3", "4", "5", "6", "7", "8", "9", "A", "B", "C", "D", "E", "F" >>

IsHex(c) == \E k \in 1..16 : HexDigits[k] = c \/ HexUpper[k] = c
HexVal(c) == (CHOOSE k \in 1..16 : HexDigits[k] = c \/ HexUpper[k] = c) - 1

\* hex.DecodeString(s) returns a nil error
HexOk(s) == Len(s) % 2 = 0 /\ \A k \in DOMAIN s : IsHex(s[k])

\* hex.DecodeString(s), the bytes, when HexOk(s)
RECURSIVE HexDecode(_)
HexDecode(s) ==
    IF Len(s) < 2 THEN << >>
    ELSE << 16 * HexVal(s[1]) + HexVal(s[2]) >> \o HexDecode(SubSeq(s, 3, Len(s)))

\* fmt.Sprintf("%x", b) for a byte slice b: two lowercase digits per byte
RECURSIVE HexEncode(_)
HexEncode(b) ==
    IF b = << >> THEN << >>
    ELSE << HexDigits[(Head(b) \div 16) + 1], HexDigits[(Head(b) % 16) + 1] >>
             \o HexEncode(Tail(b))

\* md5: h.Sum(nil) after the bytes b were written to h.  The digest function
\* itself is outside the repository; it is modelled as a fixed function of
\* the bytes written, in their order, with a digest of one byte.
RECURSIVE md5Fold(_, _)
md5Fold(h, b) == IF b = << >> THEN h ELSE md5Fold((h * 31 + Head(b) + 1) % 256, Tail(b))
md5Sum(b) == << md5Fold(7, b) >>

-----------------------------------------------------------------------------
(* Data model. *)

NewPair(key, value) == [Key |-> key, Value |-> value, Op |-> << >>]

\* the zero Reply: Reply{}
EmptyReply == [Pairs |-> << >>, SubPairs |-> << >>]

\* make(map[string]string, 1)
EmptyMap == [k \in {} |-> << >>]

\* m[k] = v
MapPut(m, k, v) == [x \in DOMAIN m \cup {k} |-> IF x = k THEN v ELSE m[x]]

\* Reply.GetPairVal found the key
HasPairVal(r, key) == \E k \in DOMAIN r.Pairs : r.Pairs[k].Key = key

\* Reply.GetPairVal(key): the value of the first pair with that key
GetPairVal(r, key) ==
    r.Pairs[CHOOSE k \in DOMAIN r.Pairs :
                /\ r.Pairs[k].Key = key
                /\ \A j \in 1..(k - 1) : r.Pairs[j].Key # key].Value

-----------------------------------------------------------------------------
(* The sentence parsers.  A parser state is the record of the locals        *)
(* reply, re, done, subReply.                                               *)

ParserInit == [reply |-> EmptyReply, re |-> FALSE, done |-> FALSE, subReply |-> EmptyMap]

\* WordVal as it would be were the word split at every "=": a value loses
\* what follows its next "="
WordVal_cut(word) == IF Len(SplitN(word, 4)) >= 3 THEN SplitN(word, 4)[3] ELSE << >>

\* key and value of a word that contains "="
WordKey(word) == SplitN(word, 3)[2]
WordVal(word) == IF Len(SplitN(word, 3)) = 3 THEN SplitN(word, 3)[3] ELSE << >>

\* reply.SubPairs = append(reply.SubPairs, subReply) when subReply has content
Flush(st) ==
    IF DOMAIN st.subReply # {}
    THEN [st EXCEPT !.reply.SubPairs = Append(@, st.subReply)]
    ELSE st

\* OnRe as it would be did it close the record without opening a new one
OnRe_keep(st) ==
    IF DOMAIN st.subReply # {}
    THEN [st EXCEPT !.reply.SubPairs = Append(@, st.subReply)]
    ELSE [st EXCEPT !.re = TRUE]

\* the word is "!re"
OnRe(st) ==
    IF DOMAIN st.subReply # {}
    THEN [st EXCEPT !.reply.SubPairs = Append(@, st.subReply), !.subReply = EmptyMap]
    ELSE [st EXCEPT !.re = TRUE]

\* OnPair as it would be did the flat list take a key once only
OnPair_unique(st, word) ==
    IF st.re
    THEN IF WordKey(word) # << >>
         THEN [st EXCEPT !.subReply = MapPut(@, WordKey(word), WordVal(word))]
         ELSE st
    ELSE IF \E k \in DOMAIN st.reply.Pairs : st.reply.Pairs[k].Key = WordKey(word)
         THEN st
         ELSE [st EXCEPT !.reply.Pairs = Append(@, NewPair(WordKey(word), WordVal(word)))]

\* the word contains "="
OnPair(st, word) ==
    IF st.re
    THEN IF WordKey(word) # << >>
         THEN [st EXCEPT !.subReply = MapPut(@, WordKey(word), WordVal(word))]
         ELSE st
    ELSE [st EXCEPT !.reply.Pairs = Append(@, NewPair(WordKey(word), WordVal(word)))]

\* receiveWord as it would be did no word after "!done" count
receiveWord_deaf(st, word) ==
    IF st.done THEN st
    ELSE IF word = sDone THEN [st EXCEPT !.done = TRUE]
    ELSE IF word = sRe THEN OnRe(st)
    ELSE IF Contains(word, "=") THEN OnPair(st, word)
    ELSE st

\* receiveWord as it would be did a marker such as "!trap" end the reply
receiveWord_trap(st, word) ==
    IF word = sDone THEN [st EXCEPT !.done = TRUE]
    ELSE IF word = sRe THEN OnRe(st)
    ELSE IF Contains(word, "=") THEN OnPair(st, word)
    ELSE IF word # << >> /\ Head(word) = "!" THEN [st EXCEPT !.done = TRUE]
    ELSE st

\* one iteration of receive's loop that read the word and did not break
receiveWord(st, word) ==
    IF word = sDone THEN [st EXCEPT !.done = TRUE]
    ELSE IF word = sRe THEN OnRe(st)
    ELSE IF Contains(word, "=") THEN OnPair(st, word)
    ELSE st

\* AsyncReset as it would be did it leave re as it is
AsyncReset_keepRe(st) == [ParserInit EXCEPT !.re = st.re]

\* the word is "" in asyncReceive: the state after the iterator has run
AsyncReset(st) == ParserInit

\* asyncWord as it would be did the empty word end the loop as "!done" does
asyncWord_stop(st, word) ==
    IF word = sDone THEN [st EXCEPT !.done = TRUE]
    ELSE IF word = << >> THEN [AsyncReset(Flush(st)) EXCEPT !.done = TRUE]
    ELSE IF word = sRe THEN OnRe(st)
    ELSE IF Contains(word, "=") THEN OnPair(st, word)
    ELSE st

\* one iteration of asyncReceive's loop that read the word (the local counter
\* is written and never read: it is left out)
asyncWord(st, word) ==
    IF word = sDone THEN [st EXCEPT !.done = TRUE]
    ELSE IF word = << >> THEN AsyncReset(st)
    ELSE IF word = sRe THEN OnRe(st)
    ELSE IF Contains(word, "=") THEN OnPair(st, word)
    ELSE st

\* the Reply asyncReceive hands to its iterator when the word is ""
AsyncDelivered(st) == Flush(st).reply

-----------------------------------------------------------------------------
(* The inputs: what the user passes and what the router sends. *)

sCmd == << "/", "x" >>
sUser == << "u" >>
Passwords == { << "p" >>, << "p", "w" >> }

FilterPair(op, key, value) == [Key |-> key, Value |-> value, Op |-> op]

\* the params of Call, the filters of Query and KeepAliveCall
PairLists ==
    { << >>,
      << FilterPair(<< >>, << "a" >>, << "1" >>) >>,
      << FilterPair(<< "=" >>, << "a" >>, << "1" >>), FilterPair(<< "<" >>, << "b" >>, << "2" >>) >> }
Proplists == { << >>, << << "a" >> >>, << << "a" >>, << "b", "c" >> >> }
QueryOps == { << >>, << "|" >> }

NoArgs == [command |-> << >>, Pairs |-> << >>, Op |-> << >>, Proplist |-> << >>]
NoCred == [user |-> << >>, password |-> << >>]
NoResult == [reply |-> EmptyReply, err |-> "none"]

wA1 == << "=", "a", "=", "1" >>
wA2 == << "=", "a", "=", "2", "=" >>
wB == << "=", "b" >>
wRet == << "=", "r", "e", "t", "=", "6", "1" >>
wRetOdd == << "=", "r", "e", "t", "=", "6" >>

\* the words a router sends in reply to a request
ReplyWords == { << >>, sDone, sRe, wA1, wA2, wB }
\* ... in reply to a command that fails: no records, the marker "!trap"
CallReplyWords == { << >>, sDone, sTrap, wA1, wA2, wB }
\* ... and in reply to /login
LoginWords == { << >>, sDone, wRet, wRetOdd }

-----------------------------------------------------------------------------
(* State. *)

ClientInit ==
    /\ conn = 0
    /\ ready = FALSE
    /\ open = {}
    /\ dials = 0
    /\ pc = "idle"
    /\ api = "none"
    /\ round = 0
    /\ fn = "none"
    /\ args = NoArgs
    /\ i = 0
    /\ cred = NoCred
    /\ res = EmptyReply
    /\ sendlog = << >>
    /\ rcvd = << >>
    /\ reply = EmptyReply
    /\ re = FALSE
    /\ done = FALSE
    /\ subReply = EmptyMap
    /\ rerr = "none"
    /\ iter = << >>
    /\ result = NoResult

\* no word is being framed
CodecOff ==
    /\ cpc = "off"
    /\ wlen = 0
    /\ wire = << >>
    /\ wbody = 0
    /\ glen = 0
    /\ gneed = 0
    /\ nread = 0

Init == ClientInit /\ CodecOff

St == [reply |-> reply, re |-> re, done |-> done, subReply |-> subReply]

SetParser(st) ==
    /\ reply' = st.reply
    /\ re' = st.re
    /\ done' = st.done
    /\ subReply' = st.subReply

\* a request builder is entered: nothing sent, nothing parsed
Enter(f, a) ==
    /\ fn' = f
    /\ args' = a
    /\ i' = 1
    /\ sendlog' = << >>
    /\ rcvd' = << >>
    /\ iter' = << >>
    /\ SetParser(ParserInit)
    /\ rerr' = "none"
    /\ result' = NoResult

\* the method the user called returns
Returns(r, e) ==
    /\ pc' = "ret"
    /\ result' = [reply |-> r, err |-> e]

-----------------------------------------------------------------------------
(* Sending.  c.send(word) makes two writes, the length prefix and the word; *)
(* it fails when either write fails.  A write on a closed connection fails; *)
(* a write on an open one succeeds or fails, as the network decides.        *)

WriteOutcomes == IF conn \in open THEN BOOLEAN ELSE {FALSE}

send(word, ok) == sendlog' = Append(sendlog, [word |-> word, ok |-> ok])

\* CallWord as it would be without the leading "="
CallWord_noLead(v) == v.Key \o << "=" >> \o v.Value

\* fmt.Sprintf("=%s=%s", v.Key, v.Value)
CallWord(v) == << "=" >> \o v.Key \o << "=" >> \o v.Value

\* QueryWord as it would be with the operator written twice
QueryWord_opTwice(v) == << "?" >> \o v.Op \o v.Op \o v.Key \o << "=" >> \o v.Value

\* fmt.Sprintf("?%s%s=%s", v.Op, v.Key, v.Value)
QueryWord(v) == << "?" >> \o v.Op \o v.Key \o << "=" >> \o v.Value

\* fmt.Sprintf("%s%s=%s", v.Op, v.Key, v.Value)
KeepAliveWord(v) == v.Op \o v.Key \o << "=" >> \o v.Value

\* fmt.Sprintf("=.proplist=%s", strings.Join(q.Proplist, ","))
ProplistWord(q) == sProplistEq \o Join(q.Proplist)

\* fmt.Sprintf("?#%s", q.Op)
OpWord(q) == << "?", "#" >> \o q.Op

\* the word the range loop of builder f sends for pair v
PairWord(f, v) ==
    IF f = "Call" THEN CallWord(v)
    ELSE IF f = "Query" THEN QueryWord(v)
    ELSE KeepAliveWord(v)

\* where builder f goes after the proplist block
AfterProplist(f, a) == IF Len(a.Pairs) > 0 THEN "pairs" ELSE "term"

\* where builder f goes after it has sent the command
AfterCommand(f, a) ==
    IF f # "Call" /\ Len(a.Proplist) > 0 THEN "prop" ELSE AfterProplist(f, a)

\* where builder f goes after the range loop over the pairs
AfterPairs(f, a) == IF f = "Query" /\ a.Op # << >> THEN "qop" ELSE "term"

\* SendFails as it would be were the error of a checked send dropped too
SendFails_dropped ==
    /\ pc' = "recv"
    /\ UNCHANGED << conn, ready, open, dials, api, round, fn, args, i, cred, res,
                    rcvd, reply, re, done, subReply, rerr, iter, result >>

\* a checked send failed: the builder returns the error, and so does Connect
SendFails ==
    /\ Returns(EmptyReply, "write")
    /\ UNCHANGED << conn, ready, open, dials, api, round, fn, args, i, cred, res,
                    rcvd, reply, re, done, subReply, rerr, iter >>

SendCommand ==
    /\ pc = "cmd"
    /\ \E ok \in WriteOutcomes :
         /\ send(args.command, ok)
         /\ IF ok
            THEN /\ pc' = AfterCommand(fn, args)
                 /\ UNCHANGED << conn, ready, open, dials, api, round, fn, args, i, cred,
                                 res, rcvd, reply, re, done, subReply, rerr, iter, result >>
            ELSE SendFails
    /\ UNCHANGED codecVars

SendProplist ==
    /\ pc = "prop"
    /\ \E ok \in WriteOutcomes :
         /\ send(ProplistWord(args), ok)
         /\ IF ok
            THEN /\ pc' = AfterProplist(fn, args)
                 /\ UNCHANGED << conn, ready, open, dials, api, round, fn, args, i, cred,
                                 res, rcvd, reply, re, done, subReply, rerr, iter, result >>
            ELSE SendFails
    /\ UNCHANGED codecVars

\* one iteration of the range loop: the error of c.send is dropped
SendPair ==
    /\ pc = "pairs"
    /\ \E ok \in WriteOutcomes : send(PairWord(fn, args.Pairs[i]), ok)
    /\ i' = i + 1
    /\ pc' = IF i < Len(args.Pairs) THEN "pairs" ELSE AfterPairs(fn, args)
    /\ UNCHANGED << conn, ready, open, dials, api, round, fn, args, cred, res,
                    rcvd, reply, re, done, subReply, rerr, iter, result >>
    /\ UNCHANGED codecVars

\* Query's combining word: the error of c.send is dropped
SendOp ==
    /\ pc = "qop"
    /\ \E ok \in WriteOutcomes : send(OpWord(args), ok)
    /\ pc' = "term"
    /\ UNCHANGED << conn, ready, open, dials, api, round, fn, args, i, cred, res,
                    rcvd, reply, re, done, subReply, rerr, iter, result >>
    /\ UNCHANGED codecVars

SendTerminator ==
    /\ pc = "term"
    /\ \E ok \in WriteOutcomes :
         /\ send(<< >>, ok)
         /\ IF ok
            THEN /\ pc' = "recv"
                 /\ UNCHANGED << conn, ready, open, dials, api, round, fn, args, i, cred,
                                 res, rcvd, reply, re, done, subReply, rerr, iter, result >>
            ELSE SendFails
    /\ UNCHANGED codecVars

-----------------------------------------------------------------------------
(* Connect. *)

\* LoginResponse as it would be without the zero byte
LoginResponse_noZero(password, challenge) ==
    << "0", "0" >> \o HexEncode(md5Sum(Bytes(password) \o challenge))

\* fmt.Sprintf("00%x", h.Sum(nil)) after "\000", the password and the
\* challenge bytes were written to h
LoginResponse(password, challenge) ==
    << "0", "0" >> \o HexEncode(md5Sum(<< 0 >> \o Bytes(password) \o challenge))

\* loginParams
LoginParams(user, password, challenge) ==
    << NewPair(sName, user), NewPair(sResponse, LoginResponse(password, challenge)) >>

\* the first login round lets Connect go on to the second one
ChallengeOk(r, e) == e = "nil" /\ HasPairVal(r, sRet) /\ HexOk(GetPairVal(r, sRet))

\* the error Connect returns after a first login round it does not go on from
ConnectErr1(r, e) ==
    IF e # "nil" THEN e
    ELSE IF ~HasPairVal(r, sRet) THEN "nochallenge"
    ELSE "hex"

\* ConnectErr2 as it would be did it not look at the pairs of the reply
ConnectErr2_lax(r, e) == IF e # "nil" THEN e ELSE "nil"

\* the error Connect returns after the second login round
ConnectErr2(r, e) ==
    IF e # "nil" THEN e
    ELSE IF Len(r.Pairs) > 0 THEN "login"
    ELSE "nil"

\* Client.ready when Connect returns error e
ReadyAfterConnect(e) == ready

-----------------------------------------------------------------------------
(* Receiving.  One action is one iteration of the parser's loop: getlen,    *)
(* the read of the word, and what the code does until the next read.  When  *)
(* the parser returns, the action goes on through the return of Call or     *)
(* Query, and in Connect to the next write or to Connect's return.          *)

Words ==
    IF api = "Connect" THEN LoginWords
    ELSE IF api = "Call" THEN CallReplyWords
    ELSE ReplyWords
Limit == IF api = "Connect" THEN MaxLoginWords ELSE MaxWords

\* the first read of the reply is made: the request is on the wire, and the
\* code uses the locals of its builder no more
Forget ==
    /\ args' = NoArgs
    /\ i' = 0
    /\ sendlog' = << >>

\* a read of the connection finds it open: the read of a closed connection
\* fails
Readable == conn \in open

\* CallResult as it would be did Call hand on the reply of a failed receive
CallResult_partial(r, e) == r

\* what Call and Query return for the (r, e) of c.receive()
CallResult(r, e) == IF e # "nil" THEN EmptyReply ELSE r

\* receive returned (st.reply, e) to Call or Query after reading words
ReceiveReturns(st, words, e) ==
    IF api = "Connect" /\ round = 1 /\ ChallengeOk(st.reply, e)
    THEN /\ round' = 2
         /\ res' = st.reply
         /\ Enter("Call", [command |-> sLogin,
                           Pairs |-> LoginParams(cred.user, cred.password,
                                                 HexDecode(GetPairVal(st.reply, sRet))),
                           Op |-> << >>, Proplist |-> << >>])
         /\ pc' = "cmd"
         /\ UNCHANGED << conn, ready, open, dials, api, cred >>
    ELSE /\ SetParser(st)
         /\ rcvd' = words
         /\ rerr' = e
         /\ Forget
         /\ IF api = "Connect"
            THEN /\ Returns(EmptyReply, IF round = 1 THEN ConnectErr1(st.reply, e)
                                        ELSE ConnectErr2(st.reply, e))
                 /\ ready' = ReadyAfterConnect(result'.err)
            ELSE /\ Returns(CallResult(st.reply, e), e)
                 /\ ready' = ready
         /\ UNCHANGED << conn, open, dials, api, round, fn, cred, res, iter >>

\* the loop goes on: the word is not the one that breaks it
ReceiveWord ==
    /\ pc = "recv" /\ fn \in {"Call", "Query"}
    /\ Readable
    /\ Len(rcvd) < Limit
    /\ \E w \in Words :
         /\ ~(w = << >> /\ done)
         /\ SetParser(receiveWord(St, w))
         /\ rcvd' = Append(rcvd, w)
    /\ Forget
    /\ UNCHANGED << conn, ready, open, dials, pc, api, round, fn, cred, res, rerr, iter, result >>
    /\ UNCHANGED codecVars

\* length == 0 && done: break, flush the record in progress, return
ReceiveBreak ==
    /\ pc = "recv" /\ fn \in {"Call", "Query"}
    /\ Readable
    /\ done
    /\ ReceiveReturns(Flush(St), Append(rcvd, << >>), "nil")
    /\ UNCHANGED codecVars

\* the read fails ("read") or ends before the first byte of a word ("bytes")
ReceiveError ==
    /\ pc = "recv" /\ fn \in {"Call", "Query"}
    /\ \E e \in {"read", "bytes"} : ReceiveReturns(St, rcvd, e)
    /\ UNCHANGED codecVars

\* iterator(reply.SubPairs, err) in KeepAliveCall's closure
KeepAliveItem(r) == r.SubPairs

\* AsyncReturns as it would be did KeepAliveCall swallow the error
AsyncReturns_nil(e) ==
    /\ rerr' = e
    /\ Returns(EmptyReply, "nil")
    /\ Forget
    /\ UNCHANGED << conn, ready, open, dials, api, round, fn, cred, res >>

\* asyncReceive returned e to KeepAliveCall, which returns it
AsyncReturns(e) ==
    /\ rerr' = e
    /\ Returns(EmptyReply, e)
    /\ Forget
    /\ UNCHANGED << conn, ready, open, dials, api, round, fn, cred, res >>

\* one iteration of asyncReceive's loop that reads a word: the word "" invokes
\* the iterator; after "!done" the next pass of the loop breaks and
\* asyncReceive returns nil
AsyncWord ==
    /\ pc = "recv" /\ fn = "KeepAliveCall"
    /\ Readable
    /\ Len(rcvd) < Limit
    /\ \E w \in Words :
         /\ SetParser(asyncWord(St, w))
         /\ rcvd' = Append(rcvd, w)
         /\ iter' = IF w = << >> THEN Append(iter, KeepAliveItem(AsyncDelivered(St))) ELSE iter
         /\ IF asyncWord(St, w).done
            THEN AsyncReturns("nil")
            ELSE /\ Forget
                 /\ UNCHANGED << conn, ready, open, dials, pc, api, round, fn, cred, res,
                                 rerr, result >>
    /\ UNCHANGED codecVars

AsyncError ==
    /\ pc = "recv" /\ fn = "KeepAliveCall"
    /\ UNCHANGED << rcvd, reply, re, done, subReply, iter >>
    /\ \E e \in {"read", "bytes"} : AsyncReturns(e)
    /\ UNCHANGED codecVars

-----------------------------------------------------------------------------
(* The methods the user calls. *)

\* a method is called on a client whose conn is nil: the write or the close
\* dereferences nil and the program panics
Panic ==
    /\ pc' = "panic"
    /\ UNCHANGED << conn, ready, open, dials, api, round, fn, args, i, cred, res, sendlog,
                    rcvd, reply, re, done, subReply, rerr, iter, result >>

Connect ==
    /\ pc = "idle"
    /\ \E password \in Passwords :
         \/ \* net.Dial fails
            /\ api' = "Connect"
            /\ Returns(EmptyReply, "dial")
            /\ UNCHANGED << conn, ready, open, dials, round, fn, args, i, cred, res, sendlog,
                            rcvd, reply, re, done, subReply, rerr, iter >>
         \/ /\ dials < MaxDials
            /\ dials' = dials + 1
            /\ conn' = dials + 1
            /\ open' = open \cup {dials + 1}
            /\ api' = "Connect"
            /\ round' = 1
            /\ cred' = [user |-> sUser, password |-> password]
            /\ Enter("Call", [NoArgs EXCEPT !.command = sLogin])
            /\ pc' = "cmd"
            /\ UNCHANGED << ready, res >>
    /\ UNCHANGED codecVars

Call ==
    /\ pc = "idle"
    /\ IF conn = 0 THEN Panic
       ELSE /\ api' = "Call"
            /\ \E params \in PairLists : Enter("Call", [NoArgs EXCEPT !.command = sCmd, !.Pairs = params])
            /\ pc' = "cmd"
            /\ UNCHANGED << conn, ready, open, dials, round, cred, res >>
    /\ UNCHANGED codecVars

Query ==
    /\ pc = "idle"
    /\ IF conn = 0 THEN Panic
       ELSE /\ api' = "Query"
            /\ \E ps \in PairLists, op \in QueryOps, pl \in Proplists :
                 Enter("Query", [command |-> sCmd, Pairs |-> ps, Op |-> op, Proplist |-> pl])
            /\ pc' = "cmd"
            /\ UNCHANGED << conn, ready, open, dials, round, cred, res >>
    /\ UNCHANGED codecVars

KeepAliveCall ==
    /\ pc = "idle"
    /\ IF conn = 0 THEN Panic
       ELSE /\ api' = "KeepAliveCall"
            /\ \E ps \in PairLists, op \in QueryOps, pl \in Proplists :
                 Enter("KeepAliveCall", [command |-> sCmd, Pairs |-> ps, Op |-> op, Proplist |-> pl])
            /\ pc' = "cmd"
            /\ UNCHANGED << conn, ready, open, dials, round, cred, res >>
    /\ UNCHANGED codecVars

Close ==
    /\ pc = "idle"
    /\ IF conn = 0 THEN Panic
       ELSE /\ open' = open \ {conn}
            /\ UNCHANGED << conn, ready, dials, pc, api, round, fn, args, i, cred, res, sendlog,
                            rcvd, reply, re, done, subReply, rerr, iter, result >>
    /\ UNCHANGED codecVars

\* c.Close() in another goroutine while KeepAliveCall's loop runs
CloseAsync ==
    /\ pc = "recv" /\ fn = "KeepAliveCall"
    /\ Readable
    /\ open' = open \ {conn}
    /\ UNCHANGED << conn, ready, dials, pc, api, round, fn, args, i, cred, res, sendlog,
                    rcvd, reply, re, done, subReply, rerr, iter, result >>
    /\ UNCHANGED codecVars

\* the caller has the method's result; the client is idle again
Return ==
    /\ pc = "ret"
    /\ pc' = "idle"
    /\ api' = "none"
    /\ round' = 0
    /\ fn' = "none"
    /\ args' = NoArgs
    /\ i' = 0
    /\ cred' = NoCred
    /\ res' = EmptyReply
    /\ sendlog' = << >>
    /\ rcvd' = << >>
    /\ SetParser(ParserInit)
    /\ rerr' = "none"
    /\ iter' = << >>
    /\ result' = NoResult
    /\ UNCHANGED << conn, ready, open, dials >>
    /\ UNCHANGED codecVars

Next ==
    \/ Connect
    \/ Call
    \/ Query
    \/ KeepAliveCall
    \/ Close
    \/ CloseAsync
    \/ SendCommand
    \/ SendProplist
    \/ SendPair
    \/ SendOp
    \/ SendTerminator
    \/ ReceiveWord
    \/ ReceiveBreak
    \/ ReceiveError
    \/ AsyncWord
    \/ AsyncError
    \/ Return

Spec == Init /\ [][Next]_vars

\* the read of asyncReceive on a connection that was closed
ClosedRead == ~Readable /\ AsyncError

\* the client of a program that connects and runs continuous calls
KeepAliveNext ==
    \/ Connect
    \/ KeepAliveCall
    \/ Close
    \/ CloseAsync
    \/ SendCommand
    \/ SendProplist
    \/ SendPair
    \/ SendTerminator
    \/ ReceiveWord
    \/ ReceiveBreak
    \/ ReceiveError
    \/ AsyncWord
    \/ AsyncError
    \/ Return

\* a read that is blocked on a connection returns once the connection is
\* closed
LiveSpec == Init /\ [][KeepAliveNext]_vars /\ WF_vars(ClosedRead)

-----------------------------------------------------------------------------
(* The framing of one word.  send writes prefixlen(len(bword)) and then the *)
(* word; receive decodes the prefix with getlen and reads that many bytes.  *)
(* One word of wlen bytes goes from send to receive; its body is counted,   *)
(* not spelled out.  The prefix is the big-endian length, in one to five    *)
(* bytes, with the high bits of the first byte telling how many bytes       *)
(* follow.                                                                  *)

\* the first length that no longer fits in 1, 2, 3 and 4 prefix bytes
WidthLimits == << 2^7, 2^14, 2^21, 2^28 >>

\* the marker in the first byte of a prefix of 2, 3, 4 and 5 bytes
WidthMarks == << 2^7, 2^7 + 2^6, 2^7 + 2^6 + 2^5, 2^7 + 2^6 + 2^5 + 2^4 >>

\* how far from 0 and from each width limit the lengths of the model go
Near == 3

\* the lengths of the words that are framed
CodecLengths ==
    (0 .. Near) \cup
    UNION { (WidthLimits[k] - Near) .. (WidthLimits[k] + Near) : k \in 1..4 }

\* l in n bytes, most significant byte first
RECURSIVE BigEndian(_, _)
BigEndian(l, n) ==
    IF n = 0 THEN << >> ELSE Append(BigEndian(l \div 256, n - 1), l % 256)

\* b with mark added to its first byte
Marked(b, mark) == << b[1] + mark >> \o Tail(b)

\* prefixlen as it would be did the prefix of 3 bytes carry the mark of 2
prefixlen_mark2(l) ==
    IF l < WidthLimits[1] THEN BigEndian(l, 1)
    ELSE IF l < WidthLimits[2] THEN Marked(BigEndian(l, 2), WidthMarks[1])
    ELSE IF l < WidthLimits[3] THEN Marked(BigEndian(l, 3), WidthMarks[1])
    ELSE IF l < WidthLimits[4] THEN Marked(BigEndian(l, 4), WidthMarks[3])
    ELSE << WidthMarks[4] >> \o BigEndian(l, 4)

\* prefixlen(l).Bytes()
prefixlen(l) ==
    IF l < WidthLimits[1] THEN BigEndian(l, 1)
    ELSE IF l < WidthLimits[2] THEN Marked(BigEndian(l, 2), WidthMarks[1])
    ELSE IF l < WidthLimits[3] THEN Marked(BigEndian(l, 3), WidthMarks[2])
    ELSE IF l < WidthLimits[4] THEN Marked(BigEndian(l, 4), WidthMarks[3])
    ELSE << WidthMarks[4] >> \o BigEndian(l, 4)

\* getlen, first byte b: how many bytes of the prefix follow it
FollowBytes(b) ==
    IF b < WidthMarks[1] THEN 0
    ELSE IF b < WidthMarks[2] THEN 1
    ELSE IF b < WidthMarks[3] THEN 2
    ELSE IF b < WidthMarks[4] THEN 3
    ELSE 4

\* getlen, first byte b: the bits of the length it holds
FirstBits(b) ==
    IF FollowBytes(b) = 0 THEN b
    ELSE IF FollowBytes(b) = 4 THEN 0
    ELSE b - WidthMarks[FollowBytes(b)]

CodecInit ==
    /\ ClientInit
    /\ cpc = "send"
    /\ wlen \in CodecLengths
    /\ wire = << >>
    /\ wbody = 0
    /\ glen = 0
    /\ gneed = 0
    /\ nread = 0

\* c.conn.Write(prefix.Bytes())
SendPrefix ==
    /\ cpc = "send"
    /\ wire' = prefixlen(wlen)
    /\ cpc' = "body"
    /\ UNCHANGED << wlen, wbody, glen, gneed, nread >>
    /\ UNCHANGED clientVars

\* c.conn.Write(bword)
SendBody ==
    /\ cpc = "body"
    /\ wbody' = wlen
    /\ cpc' = "getlen"
    /\ UNCHANGED << wlen, wire, glen, gneed, nread >>
    /\ UNCHANGED clientVars

\* getlen reads the first byte of the prefix
GetlenFirst ==
    /\ cpc = "getlen"
    /\ wire # << >>
    /\ glen' = FirstBits(Head(wire))
    /\ gneed' = FollowBytes(Head(wire))
    /\ wire' = Tail(wire)
    /\ cpc' = IF gneed' = 0 THEN "read" ELSE "more"
    /\ UNCHANGED << wlen, wbody, nread >>
    /\ UNCHANGED clientVars

\* getlen reads one more byte of the prefix
GetlenMore ==
    /\ cpc = "more"
    /\ wire # << >>
    /\ glen' = glen * 256 + Head(wire)
    /\ gneed' = gneed - 1
    /\ wire' = Tail(wire)
    /\ cpc' = IF gneed' = 0 THEN "read" ELSE "more"
    /\ UNCHANGED << wlen, wbody, nread >>
    /\ UNCHANGED clientVars

\* io.ReadAtLeast(c.conn, inbuf, int(length)): the bytes that are there, up
\* to length; fewer than length is the error of a short read
ReadWord ==
    /\ cpc = "read"
    /\ nread' = IF glen <= wbody THEN glen ELSE wbody
    /\ wbody' = wbody - nread'
    /\ cpc' = IF nread' = glen THEN "got" ELSE "short"
    /\ UNCHANGED << wlen, wire, glen, gneed >>
    /\ UNCHANGED clientVars

CodecNext ==
    \/ SendPrefix
    \/ SendBody
    \/ GetlenFirst
    \/ GetlenMore
    \/ ReadWord

SpecCodec == CodecInit /\ [][CodecNext]_vars

-----------------------------------------------------------------------------
(* Properties. *)

\* the words handed to c.send by the running request, in order
LogWords == [k \in DOMAIN sendlog |-> sendlog[k].word]

IsPrefix(a, b) == Len(a) <= Len(b) /\ SubSeq(b, 1, Len(a)) = a

\* the request is written and its parser is entered, no word read yet
ParseStarts == pc = "recv" /\ rcvd = << >>

\* a request builder is still writing
Writing == pc \in {"cmd", "prop", "pairs", "qop", "term"}

\* the terminator word
Terminator == << << >> >>

\* a reply word "=key=value" or "=key": what it says, read off the word from
\* its first character on
DataKey(w) ==
    IF Contains(Tail(w), "=") THEN SubSeq(Tail(w), 1, Index(Tail(w), "=") - 1) ELSE Tail(w)
DataValue(w) ==
    IF Contains(Tail(w), "=") THEN SubSeq(Tail(w), Index(Tail(w), "=") + 1, Len(Tail(w)))
    ELSE << >>
IsData(w) == w # << >> /\ Head(w) = "="

\* the words of a Call with arguments a
CallWords(a) ==
    << a.command >>
      \o [k \in 1..Len(a.Pairs) |-> << "=" >> \o a.Pairs[k].Key \o << "=" >> \o a.Pairs[k].Value]
      \o Terminator
\* C1: the words Call writes are the command, one "=key=value" word per
\* parameter in list order, and the terminator, nothing in between; the
\* parse starts only once the terminator is written; Call returns the Reply
\* the parse produced.
C1_CallOrder ==
    /\ (fn = "Call" /\ Writing) =>
          /\ rcvd = << >> /\ rerr = "none"
          /\ IsPrefix(LogWords, CallWords(args))
          /\ Len(LogWords) < Len(CallWords(args))
    /\ (fn = "Call" /\ ParseStarts) =>
          /\ LogWords = CallWords(args)
          /\ sendlog[Len(sendlog)].ok
    /\ (api = "Call" /\ pc = "ret" /\ rerr = "nil") => result = [reply |-> reply, err |-> "nil"]
    /\ (api = "Call" /\ pc = "ret" /\ rerr \notin {"nil", "none"}) =>
          result = [reply |-> EmptyReply, err |-> rerr]
C1_Witness ==
    /\ api = "Call" /\ ParseStarts
    /\ Len(args.Pairs) = 2
    /\ \A k \in DOMAIN sendlog : sendlog[k].ok

\* a reply of groups, each "!re" and data words with non-empty keys, then
\* "!done" and the empty word; and its records, read off the word list
IsGroupWord(w) == w = sRe \/ (IsData(w) /\ DataKey(w) # << >>)
IsGroupedReply(ws) ==
    /\ Len(ws) >= 2
    /\ ws[Len(ws)] = << >>
    /\ ws[Len(ws) - 1] = sDone
    /\ \A k \in 1..(Len(ws) - 2) : IsGroupWord(ws[k])
    /\ Len(ws) > 2 => ws[1] = sRe
    /\ \A k \in 1..(Len(ws) - 2) : ws[k] = sRe => ws[k + 1] \notin {sRe, sDone}
\* the positions of the "!re" words, and the n-th of them
RePositions(ws) == {k \in DOMAIN ws : ws[k] = sRe}
NthRe(ws, n) == CHOOSE k \in RePositions(ws) : Cardinality({j \in RePositions(ws) : j <= k}) = n
\* the positions of the data words of the n-th group
GroupPositions(ws, n) ==
    {k \in DOMAIN ws : /\ k > NthRe(ws, n)
                       /\ IsData(ws[k])
                       /\ \A j \in RePositions(ws) : j > NthRe(ws, n) => k < j}
GroupRecord(ws, n) ==
    [key \in {DataKey(ws[k]) : k \in GroupPositions(ws, n)} |->
        DataValue(ws[CHOOSE k \in GroupPositions(ws, n) :
                        /\ DataKey(ws[k]) = key
                        /\ \A j \in GroupPositions(ws, n) : DataKey(ws[j]) = key => j <= k])]
GroupRecords(ws) == [n \in 1..Cardinality(RePositions(ws)) |-> GroupRecord(ws, n)]
\* C2: a one-shot reply of k groups, each "!re" and then one or more data
\* words with non-empty keys, and then the end marker, gives SubPairs of
\* exactly k records in arrival order, each with the keys of its group and
\* the last value of a repeated key, and no flat pair; no record of SubPairs
\* is ever empty.
C2_GroupedReply ==
    /\ \A n \in DOMAIN reply.SubPairs : DOMAIN reply.SubPairs[n] # {}
    /\ Len(reply.SubPairs) <= Cardinality(RePositions(rcvd))
    /\ (api \in {"Call", "Query"} /\ pc = "ret" /\ rerr = "nil" /\ IsGroupedReply(rcvd)) =>
          /\ result.err = "nil"
          /\ result.reply.Pairs = << >>
          /\ result.reply.SubPairs = GroupRecords(rcvd)
C2_Witness ==
    /\ api = "Query" /\ pc = "ret" /\ rerr = "nil"
    /\ IsGroupedReply(rcvd)
    /\ Len(result.reply.SubPairs) = 2
    /\ result.reply.SubPairs[1] # result.reply.SubPairs[2]

\* the flat pairs of a word list, read off its words that contain "="
EqWords(ws) == SelectSeq(ws, LAMBDA w : Contains(w, "="))
FlatPairs(ws) ==
    [k \in DOMAIN EqWords(ws) |->
        [Key |-> DataKey(EqWords(ws)[k]), Value |-> DataValue(EqWords(ws)[k]), Op |-> << >>]]
\* C3: a one-shot reply without "!re" gives one flat pair per word that
\* contains "=", in arrival order: "=key=value" gives {key, value}, the value
\* with its further "=" characters, "=key" gives {key, ""}; every decoded
\* pair has an empty Op and SubPairs is empty.
C3_FlatReply ==
    /\ \A k \in DOMAIN reply.Pairs : reply.Pairs[k].Op = << >>
    /\ (api \in {"Call", "Query"} /\ pc = "ret" /\ rerr = "nil" /\ RePositions(rcvd) = {}) =>
          /\ Len(result.reply.Pairs) = Len(FlatPairs(rcvd))
          /\ \A k \in DOMAIN FlatPairs(rcvd) :
                IsData(EqWords(rcvd)[k]) => result.reply.Pairs[k] = FlatPairs(rcvd)[k]
          /\ result.reply.SubPairs = << >>
C3_Witness ==
    /\ api = "Call" /\ pc = "ret" /\ rerr = "nil"
    /\ rcvd = << wA2, wB, sDone, << >> >>
    /\ result.reply.Pairs = << [Key |-> << "a" >>, Value |-> << "2", "=" >>, Op |-> << >>],
                               [Key |-> << "b" >>, Value |-> << >>, Op |-> << >>] >>

\* asyncReceive has returned to KeepAliveCall
AsyncReturned == api = "KeepAliveCall" /\ pc = "ret" /\ rerr # "none"
HasDone(ws) == \E k \in DOMAIN ws : ws[k] = sDone
EmptyPositions(ws) == {k \in DOMAIN ws : ws[k] = << >>}
NthEmpty(ws, n) ==
    IF n = 0 THEN 0
    ELSE CHOOSE k \in EmptyPositions(ws) : Cardinality({j \in EmptyPositions(ws) : j <= k}) = n
Segment(ws, n) == SubSeq(ws, NthEmpty(ws, n - 1) + 1, NthEmpty(ws, n) - 1)
RECURSIVE ParseAll(_, _)
ParseAll(st, ws) == IF ws = << >> THEN st ELSE ParseAll(receiveWord(st, Head(ws)), Tail(ws))
SegmentRecords(ws) == Flush(ParseAll(ParserInit, ws)).reply.SubPairs
\* C5: the iterator runs once per empty word, and the records of its n-th
\* run are those a parser that starts afresh builds from the words between
\* the (n-1)-th and the n-th empty word.
C5_OneCallbackPerReply ==
    fn = "KeepAliveCall" =>
       /\ Len(iter) = Cardinality(EmptyPositions(rcvd))
       /\ \A n \in DOMAIN iter : iter[n] = SegmentRecords(Segment(rcvd, n))
C5_Witness ==
    /\ fn = "KeepAliveCall"
    /\ rcvd = << sRe, wA1, << >>, wB, << >> >>
    /\ Len(iter) = 2
    /\ iter[1] # << >>
    /\ iter[2] = << >>

\* the words of the two login rounds
FirstRet(r) ==
    r.Pairs[CHOOSE k \in DOMAIN r.Pairs :
               r.Pairs[k].Key = sRet /\ \A j \in DOMAIN r.Pairs : r.Pairs[j].Key = sRet => k <= j].Value
Login1Words == << sLogin >> \o Terminator
Login2Words ==
    << sLogin,
       << "=" >> \o sName \o << "=" >> \o cred.user,
       << "=" >> \o sResponse \o << "=", "0", "0" >>
          \o HexEncode(md5Sum(<< 0 >> \o Bytes(cred.password) \o HexDecode(FirstRet(res)))) >>
      \o Terminator
\* C6: Connect sends "/login" and the terminator, parses; it sends the second
\* "/login", with name=<user> and then response=00<hex digest of the zero
\* byte, the password and the decoded challenge>, only if the first reply has
\* a flat pair ret; without ret it returns an error and sends nothing more.
C6_LoginRounds ==
    /\ (api = "Connect" /\ round = 1 /\ Writing) =>
          IsPrefix(LogWords, Login1Words) /\ Len(LogWords) < Len(Login1Words)
    /\ (api = "Connect" /\ round = 1 /\ ParseStarts) => LogWords = Login1Words
    /\ (api = "Connect" /\ round = 2) => \E k \in DOMAIN res.Pairs : res.Pairs[k].Key = sRet
    /\ (api = "Connect" /\ round = 2 /\ Writing) =>
          IsPrefix(LogWords, Login2Words) /\ Len(LogWords) < Len(Login2Words)
    /\ (api = "Connect" /\ round = 2 /\ ParseStarts) => LogWords = Login2Words
    /\ (api = "Connect" /\ round = 1 /\ pc = "ret" /\ rerr = "nil") =>
          /\ sendlog = << >>
          /\ result.err # "nil"
          /\ (\A k \in DOMAIN reply.Pairs : reply.Pairs[k].Key # sRet) => result.err = "nochallenge"
C6_Witness ==
    /\ api = "Connect" /\ round = 2 /\ ParseStarts
    /\ \A k \in DOMAIN sendlog : sendlog[k].ok

\* C7: when both login exchanges complete without a transport error, Connect
\* returns nil exactly when the second reply has no flat pair.
C7_LoginResult ==
    (api = "Connect" /\ round = 2 /\ pc = "ret" /\ rerr = "nil") =>
       (result.err = "nil" <=> Len(reply.Pairs) = 0)
C7_Witness ==
    /\ api = "Connect" /\ round = 2 /\ pc = "ret" /\ rerr = "nil"
    /\ Len(reply.Pairs) = 0
    /\ result.err = "nil"

\* C8 as claimed: after a Connect that returns nil ready is true, after one
\* that returns an error ready is false.
C8_ReadyIffConnected == (api = "Connect" /\ pc = "ret") => (ready <=> result.err = "nil")

\* the words of a Query with arguments a, with or without the combining word
RECURSIVE CommaJoin(_)
CommaJoin(a) ==
    IF Len(a) = 0 THEN << >>
    ELSE IF Len(a) = 1 THEN a[1]
    ELSE CommaJoin(SubSeq(a, 1, Len(a) - 1)) \o << "," >> \o a[Len(a)]
QueryWords(a, withOp) ==
    << a.command >>
      \o (IF a.Proplist # << >> THEN << sProplistEq \o CommaJoin(a.Proplist) >> ELSE << >>)
      \o [k \in 1..Len(a.Pairs) |->
             << "?" >> \o a.Pairs[k].Op \o a.Pairs[k].Key \o << "=" >> \o a.Pairs[k].Value]
      \o (IF withOp THEN << << "?", "#" >> \o a.Op >> ELSE << >>)
      \o Terminator
StrictPrefix(a, b) == IsPrefix(a, b) /\ Len(a) < Len(b)
\* C9: Query writes the command, then the one "=.proplist=" word if there is
\* a proplist, then one word "?<op><key>=<value>" per filter in list order,
\* then, if at all, the word "?#<op>", then the terminator; the parse starts
\* only once the terminator is written.
C9_QueryOrder ==
    /\ (fn = "Query" /\ Writing) =>
          /\ rcvd = << >> /\ rerr = "none"
          /\ \/ StrictPrefix(LogWords, QueryWords(args, FALSE))
             \/ args.Op # << >> /\ StrictPrefix(LogWords, QueryWords(args, TRUE))
    /\ (fn = "Query" /\ ParseStarts) =>
          /\ sendlog[Len(sendlog)].ok
          /\ \/ LogWords = QueryWords(args, FALSE)
             \/ args.Op # << >> /\ LogWords = QueryWords(args, TRUE)
C9_Witness ==
    /\ fn = "Query" /\ ParseStarts
    /\ Len(args.Proplist) = 2 /\ Len(args.Pairs) = 2 /\ args.Op # << >>
    /\ Len(sendlog) = 6
    /\ \A k \in DOMAIN sendlog : sendlog[k].ok

\* C10 as claimed: KeepAliveCall writes the words Query writes for the same
\* arguments, but for the combining word "?#<op>".
C10_SameWordsAsQuery ==
    (fn = "KeepAliveCall" /\ ParseStarts) =>
       LogWords = << args.command >>
                    \o (IF Len(args.Proplist) > 0 THEN << ProplistWord(args) >> ELSE << >>)
                    \o [k \in 1..Len(args.Pairs) |-> QueryWord(args.Pairs[k])]
                    \o Terminator

-----------------------------------------------------------------------------
Builders == {"Call", "Query", "KeepAliveCall"}

\* C11: once Close has closed the connection of a connected client, every
\* later Call, Query and KeepAliveCall returns a non-nil error: a builder
\* that runs on the closed connection has written nothing yet, or has
\* returned the error of its first write with an empty Reply, without a
\* word parsed or the iterator invoked.  (The one other way to a closed
\* connection under a running builder is CloseAsync, in KeepAliveCall's loop.)
C11_ErrorAfterClose ==
    (api \in Builders /\ ~Readable) =>
        \/ pc = "cmd" /\ sendlog = << >>
        \/ /\ pc = "ret"
           /\ result.err = "write"
           /\ result.reply = EmptyReply
           /\ LogWords = << sCmd >>
           /\ rcvd = << >> /\ iter = << >>
        \/ /\ api = "KeepAliveCall"
           /\ pc \in {"recv", "ret"}
           /\ pc = "ret" => result.err \in {"read", "bytes"}

\* Query has returned the write error on a connection that Close closed
C11_Witness ==
    /\ api = "Query" /\ pc = "ret"
    /\ conn # 0 /\ ~Readable
    /\ result.err = "write"

-----------------------------------------------------------------------------
\* the number of prefix bytes a word of l bytes takes
PrefixWidth(l) == 1 + Cardinality({ k \in 1..4 : l >= WidthLimits[k] })

\* C12: word framing is an exact round trip: for every word length, the
\* largest length of 1, 2, 3 and 4 prefix bytes and one past each among
\* them, the prefix that send writes has the width of that length, getlen
\* decodes it to the length that was sent and leaves no byte of it unread,
\* and receive then reads the whole word and nothing else.
C12_RoundTrip ==
    /\ cpc \in {"body", "getlen"} => Len(wire) = PrefixWidth(wlen)
    /\ cpc \in {"read", "got"} => glen = wlen /\ wire = << >>
    /\ cpc = "got" => nread = wlen /\ wbody = 0
    /\ cpc # "short"

\* the first word that needs five prefix bytes has been read back whole
C12_Witness ==
    /\ cpc = "got"
    /\ wlen = WidthLimits[4]
    /\ nread = wlen

-----------------------------------------------------------------------------
\* the position of the first "!done", the words before it and after it
FirstDone(ws) == CHOOSE k \in DOMAIN ws : ws[k] = sDone /\ ~HasDone(SubSeq(ws, 1, k - 1))
BeforeDone(ws) == SubSeq(ws, 1, FirstDone(ws) - 1)
AfterDone(ws) == SubSeq(ws, FirstDone(ws) + 1, Len(ws))

\* receive has returned nil to Call or Query
OneShotReturned == api \in {"Call", "Query"} /\ pc = "ret" /\ rerr = "nil"

\* C13 as claimed: "!done" ends the one-shot reply, and the Reply is
\* built from exactly the words that arrived before "!done".
C13_DoneEndsReply ==
    OneShotReturned =>
        result.reply = Flush(ParseAll(ParserInit, BeforeDone(rcvd))).reply

\* C13 as amended: "!done" only marks the one-shot reply as finished; the
\* loop goes on reading and parsing words until the next empty word, and
\* only then is a non-empty record in progress flushed and the Reply
\* returned; the words between "!done" and that empty word add their pairs
\* like the words before "!done".
C13_EmptyWordEndsReply ==
    /\ (fn \in {"Call", "Query"} /\ pc = "recv") =>
          /\ done <=> HasDone(rcvd)
          /\ done => EmptyPositions(AfterDone(rcvd)) = {}
    /\ OneShotReturned =>
          /\ HasDone(rcvd)
          /\ EmptyPositions(AfterDone(rcvd)) = {Len(AfterDone(rcvd))}
          /\ RePositions(rcvd) = {} =>
                Len(result.reply.Pairs) =
                    Len(EqWords(BeforeDone(rcvd))) + Len(EqWords(AfterDone(rcvd)))
          /\ DOMAIN subReply # {} =>
                /\ result.reply.SubPairs # << >>
                /\ result.reply.SubPairs[Len(result.reply.SubPairs)] = subReply

\* a reply whose only pair arrived after "!done", and one whose last record
\* took a key after "!done"
C13_Witness ==
    /\ OneShotReturned
    /\ \/ rcvd = << sDone, wA1, << >> >> /\ Len(result.reply.Pairs) = 1
       \/ rcvd = << sRe, wA1, sDone, wB, << >> >> /\ DOMAIN subReply = { << "a" >>, << "b" >> }

-----------------------------------------------------------------------------
\* the c.send calls of the running request that failed
FailedSends == {k \in DOMAIN sendlog : ~sendlog[k].ok}

\* C14 as claimed: a word of Call, Query or KeepAliveCall whose write fails makes the
\* operation return the error without going on to parse: the parser of a
\* request starts only when every word of the request was written.
C14_NoWriteFailureDropped ==
    (api \in Builders /\ ParseStarts) => FailedSends = {}

-----------------------------------------------------------------------------
\* the words of s, as a set
WordSet(s) == {s[k] : k \in DOMAIN s}

\* C15 as claimed: Query sends the combining word "?#<op>" whenever q.Op is non-empty,
\* with filters or without, and sends no such word when q.Op is empty.
C15_OpWordIffOp ==
    (api = "Query" /\ ParseStarts) =>
        (OpWord(args) \in WordSet(LogWords) <=> args.Op # << >>)

-----------------------------------------------------------------------------
\* C16 as claimed: after any sequence of Connect and Close the client has at most one
\* open connection, the one it holds: no connection it dialed stays open
\* once the client holds it no more.
C16_AtMostOneOpen == open \subseteq {conn}

-----------------------------------------------------------------------------
\* the errors of a read that brings fewer bytes than the length declares:
\* io.ErrUnexpectedEOF after some bytes, the byte count error after none
ShortRead == {"read", "bytes"}

\* C17: a read that brings fewer bytes than the length prefix declared stops
\* the parser at once with that error; Call and Query return the error with
\* an empty Reply, whatever was parsed before; KeepAliveCall returns the
\* error, and the iterator has run for the replies that were finished, not
\* for the unfinished one.
C17_ShortReadStops ==
    /\ rerr \in ShortRead => pc = "ret"
    /\ (api \in {"Call", "Query"} /\ pc = "ret" /\ rerr \in ShortRead) =>
          result = [reply |-> EmptyReply, err |-> rerr]
    /\ (api = "KeepAliveCall" /\ pc = "ret" /\ rerr \in ShortRead) =>
          /\ result.err = rerr
          /\ Len(iter) = Cardinality(EmptyPositions(rcvd))

\* Call returns the byte count error and an empty Reply after pairs were
\* parsed; KeepAliveCall returns it with a record of the unfinished reply
C17_Witness ==
    /\ pc = "ret" /\ rerr = "bytes"
    /\ \/ api = "Call" /\ reply.Pairs # << >> /\ result.reply = EmptyReply
       \/ api = "KeepAliveCall" /\ DOMAIN subReply # {} /\ iter = << >>

-----------------------------------------------------------------------------
\* KeepAliveCall's loop runs on a connection that another goroutine closed
ClosedLoop == fn = "KeepAliveCall" /\ pc = "recv" /\ ~Readable

-----------------------------------------------------------------------------
\* the keys of a flat pair list, in list order
PairKeys(ps) == [k \in DOMAIN ps |-> ps[k].Key]

-----------------------------------------------------------------------------
\* words that are not "!done", not "!re" and hold no "=": the error markers
\* of a router among them
sFatal == << "!", "f", "a", "t", "a", "l" >>
Markers == {sTrap, sFatal, << "!" >>, << "x" >>}

\* C20: the one-shot parser gives a word that is not "!done", not "!re" and
\* holds no "=" no effect at all; a reply that carries "!trap" makes Call and
\* Query return nil, with the data words of the reply, those after the
\* marker too, as ordinary flat pairs; and the only errors the parser
\* returns are the read error and the byte count error.
C20_MarkerIgnored ==
    /\ (fn \in {"Call", "Query"} /\ pc = "recv") =>
          \A w \in Markers : receiveWord(St, w) = St
    /\ fn \in {"Call", "Query"} => rerr \in {"none", "nil"} \cup ShortRead
    /\ (OneShotReturned /\ sTrap \in WordSet(rcvd)) =>
          /\ result.err = "nil"
          /\ RePositions(rcvd) = {} => result.reply.Pairs = FlatPairs(rcvd)

\* Call has returned nil and the pair {a, 1} for the reply "!trap", "=a=1",
\* "!done", ""
C20_Witness ==
    /\ api = "Call" /\ pc = "ret"
    /\ rcvd = << sTrap, wA1, sDone, << >> >>
    /\ result = [reply |-> [Pairs |-> << NewPair(<< "a" >>, << "1" >>) >>, SubPairs |-> << >>],
                 err |-> "nil"]

====
